---- MODULE Spec2Model ----
(***************************************************************************)
(* B2B section of the sales dashboard (src/app.py): a folder of flat       *)
(* sheets is concatenated, the voucher and Particulars columns are         *)
(* forward-filled, item rows are separated from header rows, amounts and   *)
(* quantities are cleaned, and one invoice record is built per voucher.    *)
(*                                                                         *)
(* A cell is <<>> (NaN / missing) or <<v>> (the value v).  Text that the   *)
(* program parses (Quantity, Value, Gross Total) is a sequence of          *)
(* one-character strings; numbers are whole numbers.  The sheet has the    *)
(* columns Date, Particulars, Voucher No., Quantity, Rate, Value and       *)
(* Gross Total, so every "if column in raw.columns" test of the B2B        *)
(* section is true and value_col is "Value".                               *)
(***************************************************************************)
EXTENDS Integers, Sequences, FiniteSets, TLC

VARIABLES folder, raw, items_df, voucher_list, invoice_records, summary, pc

vars == <<folder, raw, items_df, voucher_list, invoice_records, summary, pc>>

NaN == <<>>
Some(v) == <<v>>
notna(c) == c # NaN

\* ------------------------------------------------------------------------
\* Bounds of the inputs
\* ------------------------------------------------------------------------
MaxRows == 3
MaxFiles == 2
MaxItemRows == 2
MaxFillRows == 4
MaxLen == 3

\* ------------------------------------------------------------------------
\* Text helpers
\* ------------------------------------------------------------------------
DigitVal == ("0" :> 0) @@ ("1" :> 1) @@ ("2" :> 2) @@ ("3" :> 3) @@ ("4" :> 4) @@
            ("5" :> 5) @@ ("6" :> 6) @@ ("7" :> 7) @@ ("8" :> 8) @@ ("9" :> 9)

IsDigit(c) == c \in DOMAIN DigitVal

\* str(x) / astype(str): the text of a cell; NaN prints as "nan"
Str(c) == IF c = NaN THEN <<"n", "a", "n">> ELSE c[1]

\* s.replace(pat, ""): every non-overlapping occurrence, left to right
RECURSIVE Remove(_, _)
Remove(s, pat) ==
    IF Len(s) < Len(pat) THEN s
    ELSE IF SubSeq(s, 1, Len(pat)) = pat
         THEN Remove(SubSeq(s, Len(pat) + 1, Len(s)), pat)
         ELSE <<s[1]>> \o Remove(Tail(s), pat)

\* .replace("Dr", "").replace("Cr", "").replace(",", "")
CleanAmount(s) == Remove(Remove(Remove(s, <<"D", "r">>), <<"C", "r">>), <<",">>)

RECURSIVE TrimLeft(_)
TrimLeft(s) == IF s # <<>> /\ Head(s) = " " THEN TrimLeft(Tail(s)) ELSE s

RECURSIVE TrimRight(_)
TrimRight(s) ==
    IF s # <<>> /\ s[Len(s)] = " " THEN TrimRight(SubSeq(s, 1, Len(s) - 1)) ELSE s

RECURSIVE DigitsToInt(_)
DigitsToInt(s) ==
    IF s = <<>> THEN 0
    ELSE 10 * DigitsToInt(SubSeq(s, 1, Len(s) - 1)) + DigitVal[s[Len(s)]]

AllDigits(s) == s # <<>> /\ \A i \in 1..Len(s) : IsDigit(s[i])

\* The decimal parse shared by float() and pd.to_numeric: surrounding blanks
\* are skipped, a sign is allowed, "nan" is the float NaN.
\* ok = FALSE is the parse failure.
ParseDecimal(s) ==
    LET t == TrimRight(TrimLeft(s))
        signed == t # <<>> /\ t[1] \in {"-", "+"}
        body == IF signed THEN Tail(t) ELSE t
    IN  IF body = <<"n", "a", "n">> THEN [ok |-> TRUE, val |-> NaN]
        ELSE IF AllDigits(body)
             THEN [ok |-> TRUE,
                   val |-> Some(IF signed /\ t[1] = "-"
                                THEN 0 - DigitsToInt(body) ELSE DigitsToInt(body))]
             ELSE [ok |-> FALSE, val |-> NaN]

\* pd.to_numeric(text, errors="coerce")
ToNumeric(s) == ParseDecimal(s).val

\* ------------------------------------------------------------------------
\* Quantity: .astype(str).str.extract(r'(\d+)')[0], then pd.to_numeric
\* ------------------------------------------------------------------------
RECURSIVE TakeDigits(_)
TakeDigits(s) ==
    IF s = <<>> \/ ~IsDigit(Head(s)) THEN <<>>
    ELSE <<Head(s)>> \o TakeDigits(Tail(s))

RECURSIVE KeepDigits(_)
KeepDigits(s) ==
    IF s = <<>> THEN <<>>
    ELSE (IF IsDigit(Head(s)) THEN <<Head(s)>> ELSE <<>>) \o KeepDigits(Tail(s))

\* a mutation of ExtractDigits: every digit of the text, not the first run
ExtractEveryDigit(s) ==
    IF KeepDigits(s) = <<>> THEN NaN ELSE Some(KeepDigits(s))

ExtractDigits(s) ==
    LET at == {i \in 1..Len(s) : IsDigit(s[i])}
    IN  IF at = {} THEN NaN
        ELSE LET first == CHOOSE i \in at : \A j \in at : i <= j
             IN  Some(TakeDigits(SubSeq(s, first, Len(s))))

QuantityNumeric(cell) ==
    LET m == ExtractDigits(Str(cell))
    IN  IF m = NaN THEN NaN ELSE ToNumeric(m[1])

\* pd.to_numeric(cleaned Value text, errors="coerce")
LineValueNumeric(cell) == ToNumeric(CleanAmount(Str(cell)))

\* ------------------------------------------------------------------------
\* Dates: pd.to_datetime(..., errors="coerce", dayfirst=True)
\* ------------------------------------------------------------------------
DateTable == ("01-02-2024" :> <<2024, 2, 1>>) @@ ("03-02-2024" :> <<2024, 2, 3>>)

ToDatetime(c) ==
    IF c = NaN THEN NaN
    ELSE IF c[1] \in DOMAIN DateTable THEN Some(DateTable[c[1]]) ELSE NaN

\* ------------------------------------------------------------------------
\* load_data_from_folder
\* ------------------------------------------------------------------------
\* lines 35-37: the rows of one file, tagged with its name; a file that
\* cannot be read adds nothing (lines 38-39)
ReadFile(file) ==
    IF file.readable
    THEN [i \in 1..Len(file.rows) |->
             [Date |-> file.rows[i].Date,
              Particulars |-> file.rows[i].Particulars,
              VoucherNo |-> file.rows[i].VoucherNo,
              Quantity |-> file.rows[i].Quantity,
              Rate |-> file.rows[i].Rate,
              Value |-> file.rows[i].Value,
              GrossTotal |-> file.rows[i].GrossTotal,
              SourceFile |-> file.name]]
    ELSE <<>>

\* line 40: pd.concat(dfs, ignore_index=True), in os.listdir order
RECURSIVE Concat(_)
Concat(files) ==
    IF files = <<>> THEN <<>>
    ELSE ReadFile(Head(files)) \o Concat(Tail(files))

\* ------------------------------------------------------------------------
\* Series.ffill()
\* ------------------------------------------------------------------------
RECURSIVE FfillFrom(_, _, _)
FfillFrom(col, i, last) ==
    IF i > Len(col) THEN <<>>
    ELSE LET cur == IF notna(col[i]) THEN col[i] ELSE last
         IN  <<cur>> \o FfillFrom(col, i + 1, cur)

\* a mutation of Ffill: a gap is filled from the row just above it only
\* (ffill(limit=1))
FfillLimitOne(col) ==
    [i \in 1..Len(col) |->
        IF notna(col[i]) \/ i = 1 THEN col[i] ELSE col[i - 1]]

Ffill(col) == FfillFrom(col, 1, NaN)

Column(rows, name) == [i \in 1..Len(rows) |-> rows[i][name]]

\* lines 130-135: both key columns filled, the Date column parsed
Prepare(rows) ==
    LET v == Ffill(Column(rows, "VoucherNo"))
        p == Ffill(Column(rows, "Particulars"))
    IN  [i \in 1..Len(rows) |->
            [rows[i] EXCEPT !.VoucherNo = v[i], !.Particulars = p[i],
                            !.Date = ToDatetime(rows[i].Date)]]

\* ------------------------------------------------------------------------
\* items_df
\* ------------------------------------------------------------------------
\* a mutation of item_mask: rows without a voucher key are left out
ItemMaskKeyed(r) ==
    (notna(r.Value) \/ notna(r.Quantity)) /\ ~notna(r.GrossTotal) /\ notna(r.VoucherNo)

item_mask(r) == (notna(r.Value) \/ notna(r.Quantity)) /\ ~notna(r.GrossTotal)

\* lines 159-176: the masked rows, each with its index in raw, the cleaned
\* Value text and the two numeric columns
ItemRow(rows, i) ==
    [idx |-> i,
     VoucherNo |-> rows[i].VoucherNo,
     Particulars |-> rows[i].Particulars,
     Quantity |-> rows[i].Quantity,
     Rate |-> rows[i].Rate,
     SourceFile |-> rows[i].SourceFile,
     Value |-> Some(CleanAmount(Str(rows[i].Value))),
     LineValueNumeric |-> LineValueNumeric(rows[i].Value),
     QuantityNumeric |-> QuantityNumeric(rows[i].Quantity)]

BuildItemsDf(rows) ==
    LET Keep(i) == item_mask(rows[i])
        keep == SelectSeq([i \in 1..Len(rows) |-> i], Keep)
    IN  [k \in 1..Len(keep) |-> ItemRow(rows, keep[k])]

\* ------------------------------------------------------------------------
\* Invoices
\* ------------------------------------------------------------------------
\* raw["Voucher No."].dropna().unique().tolist(): first-appearance order
RECURSIVE Unique(_, _)
Unique(col, seen) ==
    IF col = <<>> THEN <<>>
    ELSE IF Head(col) = NaN \/ Head(col) \in seen THEN Unique(Tail(col), seen)
         ELSE <<Head(col)[1]>> \o Unique(Tail(col), seen \cup {Head(col)})

\* a mutation of VoucherList: no de-duplication
RECURSIVE DropNa(_)
DropNa(col) ==
    IF col = <<>> THEN <<>>
    ELSE (IF Head(col) = NaN THEN <<>> ELSE <<Head(col)[1]>>) \o DropNa(Tail(col))

VoucherListNotUnique(rows) == DropNa(Column(rows, "VoucherNo"))

\* a mutation of VoucherList: only rows that carry a Gross Total name a voucher
VoucherListFromHeaders(rows) ==
    LET Marked(r) == notna(r.GrossTotal)
    IN  Unique(Column(SelectSeq(rows, Marked), "VoucherNo"), {})

VoucherList(rows) == Unique(Column(rows, "VoucherNo"), {})

RECURSIVE SumSeq(_)
SumSeq(s) == IF s = <<>> THEN 0 ELSE Head(s) + SumSeq(Tail(s))

\* Series.sum(min_count=...): NaN cells are skipped; NaN when fewer than
\* min_count cells are left
SumSkipNa(cells, min_count) ==
    LET present == SelectSeq(cells, notna)
    IN  IF Len(present) < min_count THEN NaN
        ELSE Some(SumSeq([k \in 1..Len(present) |-> present[k][1]]))

\* a mutation of HeaderIdx: the last row carrying a Gross Total
HeaderIdxLast(rows, v) ==
    LET inv_rows == {i \in 1..Len(rows) : rows[i].VoucherNo = Some(v)}
        header_rows == {i \in inv_rows : notna(rows[i].GrossTotal)}
        from == IF header_rows # {} THEN header_rows ELSE inv_rows
    IN  CHOOSE i \in from : \A j \in from : j <= i

\* lines 183-189: index in raw of the header row of voucher v
HeaderIdx(rows, v) ==
    LET inv_rows == {i \in 1..Len(rows) : rows[i].VoucherNo = Some(v)}
        header_rows == {i \in inv_rows : notna(rows[i].GrossTotal)}
        from == IF header_rows # {} THEN header_rows ELSE inv_rows
    IN  CHOOSE i \in from : \A j \in from : i <= j

InvItems(items, v) ==
    LET IsV(it) == it.VoucherNo = Some(v) IN SelectSeq(items, IsV)

\* a mutation of TotalValue: the items' sum is always kept
TotalValueNoFallback(header, inv_items) ==
    SumSkipNa([k \in 1..Len(inv_items) |-> inv_items[k].LineValueNumeric], 1)

\* lines 197-208
TotalValue(header, inv_items) ==
    LET total_value ==
            SumSkipNa([k \in 1..Len(inv_items) |-> inv_items[k].LineValueNumeric], 1)
    IN  IF total_value = NaN \/ total_value = Some(0)
        THEN LET gt == ParseDecimal(CleanAmount(Str(header.GrossTotal)))
             IN  IF gt.ok THEN gt.val ELSE Some(0)
        ELSE total_value

\* lines 183-217: the record appended for voucher v
InvoiceRecord(rows, items, v) ==
    LET header == rows[HeaderIdx(rows, v)]
        inv_items == InvItems(items, v)
    IN  [Date |-> header.Date,   \* already a timestamp or NaT: to_datetime keeps it
         Vendor |-> header.Particulars,
         VoucherNo |-> v,
         ItemCount |-> Len(inv_items),
         InvoiceTotal |-> TotalValue(header, inv_items)]

\* lines 219-224: invoices_df and the summary metrics.  An empty list of
\* records gives a frame without columns, and invoices_df["Vendor"] raises
\* KeyError.
Summary(records) ==
    [total_invoices |-> Len(records),
     total_vendors |->
        Cardinality({records[k].Vendor : k \in 1..Len(records)} \ {NaN}),
     total_sales |-> SumSkipNa([k \in 1..Len(records) |-> records[k].InvoiceTotal], 0)]

NoSummary == [total_invoices |-> 0, total_vendors |-> 0, total_sales |-> NaN]

\* ------------------------------------------------------------------------
\* The run of the B2B section
\* ------------------------------------------------------------------------
\* line 117: raw = load_data_from_folder(folder_path)
LoadData ==
    /\ pc = "start"
    /\ raw' = Concat(folder)
    /\ pc' = "loaded"
    /\ UNCHANGED <<folder, items_df, voucher_list, invoice_records, summary>>

\* lines 119-121: nothing was read
StopNoData ==
    /\ pc = "loaded"
    /\ raw = <<>>
    /\ pc' = "stopped"
    /\ UNCHANGED <<folder, raw, items_df, voucher_list, invoice_records, summary>>

\* lines 130-135
ForwardFill ==
    /\ pc = "loaded"
    /\ raw # <<>>
    /\ raw' = Prepare(raw)
    /\ pc' = "filled"
    /\ UNCHANGED <<folder, items_df, voucher_list, invoice_records, summary>>

\* lines 149-176
BuildItems ==
    /\ pc = "filled"
    /\ items_df' = BuildItemsDf(raw)
    /\ pc' = "items"
    /\ UNCHANGED <<folder, raw, voucher_list, invoice_records, summary>>

\* lines 180-181
ListVouchers ==
    /\ pc = "items"
    /\ voucher_list' = VoucherList(raw)
    /\ invoice_records' = <<>>
    /\ pc' = "invoices"
    /\ UNCHANGED <<folder, raw, items_df, summary>>

\* lines 182-217: one pass of the loop over voucher_list
BuildInvoice ==
    /\ pc = "invoices"
    /\ Len(invoice_records) < Len(voucher_list)
    /\ invoice_records' =
          Append(invoice_records,
                 InvoiceRecord(raw, items_df, voucher_list[Len(invoice_records) + 1]))
    /\ UNCHANGED <<folder, raw, items_df, voucher_list, summary, pc>>

\* lines 219-230
Summarise ==
    /\ pc = "invoices"
    /\ Len(invoice_records) = Len(voucher_list)
    /\ IF invoice_records = <<>>
       THEN pc' = "crashed" /\ UNCHANGED summary
       ELSE pc' = "done" /\ summary' = Summary(invoice_records)
    /\ UNCHANGED <<folder, raw, items_df, voucher_list, invoice_records>>

Next ==
    \/ LoadData
    \/ StopNoData
    \/ ForwardFill
    \/ BuildItems
    \/ ListVouchers
    \/ BuildInvoice
    \/ Summarise

\* ------------------------------------------------------------------------
\* Input sheets
\* ------------------------------------------------------------------------
Chars1000Dr == <<"1", ",", "0", "0", "0", " ", "D", "r">>
Chars500 == <<"5", "0", "0">>
CharsNA == <<"N", "/", "A">>
Chars0 == <<"0">>
Chars5pcs == <<"5", " ", "p", "c", "s">>
Chars10 == <<"1", "0">>

Vouchers == {NaN, Some("INV1"), Some("INV2")}
Vendors == {NaN, Some("Acme"), Some("Bolt")}

Row(d, p, v, q, r, val, gt) ==
    [Date |-> d, Particulars |-> p, VoucherNo |-> v, Quantity |-> q,
     Rate |-> r, Value |-> val, GrossTotal |-> gt]

SeqsUpTo(S, n) == UNION {[1..k -> S] : k \in 0..n}

\* the ways to cut a row sequence into at most maxFiles readable files; with
\* no rows, the empty folder and a folder whose one file cannot be read
Folders(rowSeq, maxFiles) ==
    LET n == Len(rowSeq)
        File(nm, a, b) == [name |-> nm, readable |-> TRUE, rows |-> SubSeq(rowSeq, a, b)]
        whole == IF n = 0
                 THEN {<<>>, <<[name |-> "a.xlsx", readable |-> FALSE, rows |-> <<>>]>>}
                 ELSE {<<File("a.xlsx", 1, n)>>}
        two == IF maxFiles >= 2
               THEN {<<File("a.xlsx", 1, c), File("b.csv", c + 1, n)>> : c \in 1..(n - 1)}
               ELSE {}
        three == IF maxFiles >= 3
                 THEN {<<File("a.xlsx", 1, c), File("b.csv", c + 1, d),
                         File("c.xlsx", d + 1, n)>> :
                          c \in 1..(n - 2), d \in 2..(n - 1)}
                 ELSE {}
    IN  whole \cup two \cup {f \in three : \A k \in 1..3 : f[k].rows # <<>>}

InitWith(rowSet, maxRows, maxFiles) ==
    /\ \E rs \in SeqsUpTo(rowSet, maxRows) : folder \in Folders(rs, maxFiles)
    /\ raw = <<>>
    /\ items_df = <<>>
    /\ voucher_list = <<>>
    /\ invoice_records = <<>>
    /\ summary = NoSummary
    /\ pc = "start"

\* header rows and continuation rows of up to two vouchers
InvoiceRows ==
    {Row(dp[1], dp[2], v, NaN, NaN, NaN, gt) :
        dp \in {<<NaN, NaN>>, <<Some("01-02-2024"), Some("Acme")>>,
                <<Some("03-02-2024"), Some("Bolt")>>},
        v \in Vouchers,
        gt \in {NaN, Some(Chars1000Dr)}}

\* the two key columns alone
FillRows == {Row(NaN, p, v, NaN, NaN, NaN, NaN) : p \in Vendors, v \in Vouchers}

\* rows of several files: a voucher number, a line value, both or neither
FileRows ==
    {Row(NaN, NaN, v, NaN, NaN, val, NaN) : v \in Vouchers, val \in {NaN, Some(Chars500)}}

\* every combination of the four fields that decide what an item row is
ItemRows ==
    {Row(NaN, NaN, v, q, r, val, gt) :
        v \in {NaN, Some("INV1")},
        q \in {NaN, Some(Chars5pcs)},
        r \in {NaN, Some(Chars10)},
        val \in {NaN, Some(Chars500)},
        gt \in {NaN, Some(Chars1000Dr)}}

\* amounts that parse, that do not, that are zero, that are missing
TotalRows ==
    {Row(NaN, NaN, v, NaN, NaN, val, gt) :
        v \in {NaN, Some("INV1")},
        val \in {NaN, Some(Chars500), Some(CharsNA), Some(Chars0)},
        gt \in {NaN, Some(Chars1000Dr), Some(CharsNA)}}

\* one item row per quantity text over a small alphabet
QuantityAlphabet == {"1", "2", "p", " "}

QuantityRows ==
    {Row(NaN, NaN, Some("INV1"), Some(q), NaN, NaN, NaN) :
        q \in SeqsUpTo(QuantityAlphabet, MaxLen) \ {<<>>}}

Init == InitWith(InvoiceRows, MaxRows, 1)
InitFill == InitWith(FillRows, MaxFillRows, 1)
InitFiles == InitWith(FileRows, MaxRows, MaxFiles)
InitItems == InitWith(ItemRows, MaxItemRows, 1)
InitTotals == InitWith(TotalRows, MaxRows, 1)
InitQuantity == InitWith(QuantityRows, 1, 1)

Spec == Init /\ [][Next]_vars
SpecFill == InitFill /\ [][Next]_vars
SpecFiles == InitFiles /\ [][Next]_vars
SpecItems == InitItems /\ [][Next]_vars
SpecTotals == InitTotals /\ [][Next]_vars
SpecQuantity == InitQuantity /\ [][Next]_vars

\* ------------------------------------------------------------------------
\* Properties
\* ------------------------------------------------------------------------
Loaded == Concat(folder)          \* the rows as read, before any fill
Filled == pc \in {"filled", "items", "invoices", "done", "crashed"}
ItemsBuilt == pc \in {"items", "invoices", "done", "crashed"}
Final == pc \in {"done", "crashed"}

Max(S) == CHOOSE x \in S : \A y \in S : y <= x
Min(S) == CHOOSE x \in S : \A y \in S : x <= y

ItemIdx == {items_df[k].idx : k \in 1..Len(items_df)}

\* C1: after the forward fill, each row's voucher key (and likewise its
\* Particulars) is the most recent non-null value at or before that row in
\* file order, and stays null when there is none.
C1_ForwardFillCarriesLast ==
    Filled =>
        \A name \in {"VoucherNo", "Particulars"} :
            \A i \in 1..Len(raw) :
                LET prior == {j \in 1..i : notna(Loaded[j][name])}
                IN  IF prior = {} THEN raw[i][name] = NaN
                    ELSE raw[i][name] = Loaded[Max(prior)][name]

\* a value is carried over two empty rows, past an older value, and a leading
\* empty row stays empty
C1_Witness ==
    /\ pc = "filled"
    /\ \E i \in 3..Len(raw) :
          /\ Loaded[i].VoucherNo = NaN /\ Loaded[i - 1].VoucherNo = NaN
          /\ raw[i].VoucherNo # NaN
    /\ \E i, j \in 1..Len(raw) :
          /\ i < j /\ notna(Loaded[i].Particulars) /\ notna(Loaded[j].Particulars)
          /\ Loaded[i].Particulars # Loaded[j].Particulars
          /\ j < Len(raw) /\ Loaded[j + 1].Particulars = NaN
    /\ Loaded[1].VoucherNo = NaN /\ raw[1].VoucherNo = NaN

\* C2: the invoice records hold each distinct non-null voucher number of the
\* rows exactly once.
C2_OneInvoicePerVoucher ==
    Final =>
        LET keys == {Loaded[i].VoucherNo[1] :
                        i \in {j \in 1..Len(Loaded) : notna(Loaded[j].VoucherNo)}}
        IN  /\ \A v \in keys :
                  Cardinality({k \in 1..Len(invoice_records) :
                                  invoice_records[k].VoucherNo = v}) = 1
            /\ \A k \in 1..Len(invoice_records) : invoice_records[k].VoucherNo \in keys

\* two vouchers, one of them written on two rows
C2_Witness ==
    /\ pc = "done"
    /\ Len(invoice_records) = 2
    /\ \E i, j \in 1..Len(Loaded) :
          i # j /\ notna(Loaded[i].VoucherNo) /\ Loaded[i].VoucherNo = Loaded[j].VoucherNo

\* C3: an invoice's date and vendor come from the first row of its voucher
\* group that has a Gross Total, and from the first row of the group when no
\* row of the group has one.
C3_HeaderFromFirstGrossTotalRow ==
    Final =>
        \A k \in 1..Len(invoice_records) :
            LET rec == invoice_records[k]
                group == {i \in 1..Len(raw) : raw[i].VoucherNo = Some(rec.VoucherNo)}
                marked == {i \in group : notna(raw[i].GrossTotal)}
            IN  \A h \in group :
                    (\/ h \in marked /\ \A j \in marked : h <= j
                     \/ marked = {} /\ \A j \in group : h <= j)
                    => rec.Date = raw[h].Date /\ rec.Vendor = raw[h].Particulars

\* a voucher whose first row has no Gross Total and is followed by two rows
\* that have one, with different dates and vendors
C3_Witness ==
    /\ pc = "done"
    /\ \E k \in 1..Len(invoice_records) :
          \E a, b, c \in 1..Len(raw) :
             /\ a < b /\ b < c
             /\ \A i \in {a, b, c} : raw[i].VoucherNo = Some(invoice_records[k].VoucherNo)
             /\ raw[a].GrossTotal = NaN /\ notna(raw[b].GrossTotal) /\ notna(raw[c].GrossTotal)
             /\ raw[a].Date # raw[b].Date /\ raw[b].Date # raw[c].Date
             /\ raw[a].Particulars # raw[b].Particulars
             /\ raw[b].Particulars # raw[c].Particulars

\* C4: a row is in LineItems exactly when one of quantity, rate and line value
\* is non-null and its Gross Total is null.
C4_ItemIffAnyOfThreeAndNoGrossTotal ==
    ItemsBuilt =>
        \A i \in 1..Len(raw) :
            i \in ItemIdx <=>
                /\ notna(raw[i].Quantity) \/ notna(raw[i].Rate) \/ notna(raw[i].Value)
                /\ raw[i].GrossTotal = NaN

OrphanRow(i) == \A j \in 1..i : Loaded[j].VoucherNo = NaN

InvoicesOf(v) == {k \in 1..Len(invoice_records) : Some(invoice_records[k].VoucherNo) = v}

ItemValues(v) ==
    LET mine == {k \in 1..Len(items_df) :
                    items_df[k].VoucherNo = Some(v) /\ notna(items_df[k].LineValueNumeric)}
    IN  [k \in mine |-> items_df[k].LineValueNumeric[1]]

RECURSIVE SumOver(_, _)
SumOver(f, S) ==
    IF S = {} THEN 0
    ELSE LET x == CHOOSE x \in S : TRUE IN f[x] + SumOver(f, S \ {x})

ItemSum(v) == SumOver(ItemValues(v), DOMAIN ItemValues(v))

HeaderOf(v) == raw[Min({i \in 1..Len(raw) :
                          /\ raw[i].VoucherNo = Some(v)
                          /\ \/ notna(raw[i].GrossTotal)
                             \/ \A j \in 1..Len(raw) :
                                   raw[j].VoucherNo = Some(v) => raw[j].GrossTotal = NaN})]

Unparsable(cell) == cell # NaN /\ ~ParseDecimal(CleanAmount(cell[1])).ok

\* C7: an amount that still fails to parse after the clean-up is null, not
\* zero, and adds nothing to a sum; an invoice whose Gross Total does not
\* parse is still built, its total taken from its items.
C7_UnparsableIsNullNotZero ==
    Final =>
        /\ \A k \in 1..Len(items_df) :
              Unparsable(raw[items_df[k].idx].Value) => items_df[k].LineValueNumeric = NaN
        /\ \A i \in 1..Len(raw) :
              notna(raw[i].VoucherNo) => InvoicesOf(raw[i].VoucherNo) # {}
        /\ \A k \in 1..Len(invoice_records) :
              LET rec == invoice_records[k]
              IN  Unparsable(HeaderOf(rec.VoucherNo).GrossTotal) =>
                      IF DOMAIN ItemValues(rec.VoucherNo) # {}
                      THEN rec.InvoiceTotal = Some(ItemSum(rec.VoucherNo))
                      ELSE rec.InvoiceTotal = NaN

DecimalValue(s, a, b) == SumOver([i \in a..b |-> DigitVal[s[i]] * 10 ^ (b - i)], a..b)

\* C8: the parsed quantity is the number written by the first run of
\* consecutive digits of the raw text, and null when the text has no digit.
C8_QuantityIsFirstDigitRun ==
    ItemsBuilt =>
        \A k \in 1..Len(items_df) :
            LET q == raw[items_df[k].idx].Quantity
                got == items_df[k].QuantityNumeric
            IN  notna(q) =>
                  LET s == q[1]
                  IN  IF \A i \in 1..Len(s) : ~IsDigit(s[i])
                      THEN got = NaN
                      ELSE \E a \in 1..Len(s) : \E b \in a..Len(s) :
                              /\ \A i \in 1..(a - 1) : ~IsDigit(s[i])
                              /\ \A i \in a..b : IsDigit(s[i])
                              /\ b = Len(s) \/ ~IsDigit(s[b + 1])
                              /\ got = Some(DecimalValue(s, a, b))

\* a text with a two-digit run, and a text with two runs of digits
C8_Witness ==
    /\ ItemsBuilt
    /\ \E k \in 1..Len(items_df) :
          LET s == raw[items_df[k].idx].Quantity[1]
          IN  /\ Len(s) = 3
              /\ ~IsDigit(s[2])
              /\ IsDigit(s[1]) /\ IsDigit(s[3])
              /\ items_df[k].QuantityNumeric = Some(DigitVal[s[1]])

\* what a run over the files in another order produces
Tables(rows, items, records) ==
    [invoices |-> {records[k] : k \in 1..Len(records)},
     items |-> {<<items[k].VoucherNo, items[k].SourceFile, items[k].Value>> :
                   k \in 1..Len(items)}]

Reconstruct(files) ==
    LET rows == Prepare(Concat(files))
        items == BuildItemsDf(rows)
        list == VoucherList(rows)
    IN  Tables(rows, items, [k \in 1..Len(list) |-> InvoiceRecord(rows, items, list[k])])

Orders(n) == {p \in [1..n -> 1..n] : \A a, b \in 1..n : a # b => p[a] # p[b]}

WrittenVouchers(file) ==
    {file.rows[i].VoucherNo : i \in 1..Len(file.rows)} \ {NaN}

DisjointVouchers(files) ==
    \A a, b \in 1..Len(files) :
        a # b => WrittenVouchers(files[a]) \cap WrittenVouchers(files[b]) = {}

\* C9: when the files' voucher numbers are pairwise disjoint, every order of
\* concatenation gives the same invoices and the same LineItems per voucher,
\* and no LineItem is attached to a voucher written in another file only.
C9_FileOrderIrrelevant ==
    (Final /\ DisjointVouchers(folder)) =>
        /\ \A p \in Orders(Len(folder)) :
              Reconstruct([k \in 1..Len(folder) |-> folder[p[k]]])
                 = Tables(raw, items_df, invoice_records)
        /\ \A k \in 1..Len(items_df) :
              notna(items_df[k].VoucherNo) =>
                 \E f \in 1..Len(folder) :
                    /\ folder[f].name = items_df[k].SourceFile
                    /\ items_df[k].VoucherNo \in WrittenVouchers(folder[f])

NoGrossTotal == \A i \in 1..Len(Loaded) : Loaded[i].GrossTotal = NaN

\* C10 as claimed: with no Gross Total on any row there is no invoice, and
\* LineItems is non-empty if an item-shaped row exists.
C10_NoHeaderRowsNoInvoices ==
    (Final /\ NoGrossTotal) =>
        /\ invoice_records = <<>>
        /\ (\E i \in 1..Len(raw) : notna(raw[i].Value) \/ notna(raw[i].Quantity))
              => items_df # <<>>

\* C10 as amended: with no Gross Total on any row there is still one invoice
\* per distinct non-null voucher number, so Invoices is empty only when no
\* row has a voucher number; LineItems is non-empty if a row has a Value or
\* a Quantity.
C10_NoHeaderRowsInvoicePerVoucher ==
    (Final /\ NoGrossTotal) =>
        /\ {Some(invoice_records[k].VoucherNo) : k \in 1..Len(invoice_records)}
              = {Loaded[i].VoucherNo : i \in 1..Len(Loaded)} \ {NaN}
        /\ Len(invoice_records)
              = Cardinality({Loaded[i].VoucherNo : i \in 1..Len(Loaded)} \ {NaN})
        /\ (\E i \in 1..Len(raw) : notna(raw[i].Value) \/ notna(raw[i].Quantity))
              => items_df # <<>>

\* no Gross Total anywhere, an invoice all the same, and an item under it
C10_Witness ==
    /\ pc = "done"
    /\ NoGrossTotal
    /\ invoice_records # <<>>
    /\ \E k \in 1..Len(items_df) : notna(items_df[k].VoucherNo)

====
